---- MODULE Spec2Model ----
(***************************************************************************)
(* Model of the disk analyzer of src/src/main.rs: the DiskAnalyzer struct, *)
(* its methods (scan_current_directory, sort_files, update_search,         *)
(* navigate_to, go_up, delete_item) and the handlers of update() that call *)
(* them, over a small file system and a clock.                             *)
(*                                                                         *)
(* Encodings.  Option<T>: None is <<>>, Some(x) is <<x>>.  A String is the *)
(* sequence of its (ASCII) character codes.  A PathBuf is the sequence of  *)
(* its components below "/", so "/" itself is <<>>.                        *)
(*                                                                         *)
(* Left out: show_details, which only opens a window, and auto_refresh    *)
(* with last_refresh, whose periodic rescan at the end of update() is the  *)
(* call of scan_current_directory that Refresh makes.                      *)
(***************************************************************************)
EXTENDS Integers, Sequences, FiniteSets, TLC

\* ------------------------------------------------------------- bounds
\* The clock stops advancing at MaxNow seconds.
MaxNow == 300

\* ------------------------------------------------- program constants
MIN_SIZE_FILTER == 102400
CACHE_TTL == 300

None == <<>>
Some(x) == <<x>>
IsSome(o) == o # <<>>
Unwrap(o) == o[1]

\* ----------------------------------------------------------- strings
Dot == 46

\* str::to_lowercase on ASCII text: 'A'..'Z' are moved to 'a'..'z'.
to_lowercase(str) ==
    [i \in 1..Len(str) |-> IF str[i] \in 65..90 THEN str[i] + 32 ELSE str[i]]

\* str::starts_with('.')
starts_with_dot(str) == Len(str) > 0 /\ str[1] = Dot

\* str::contains(&needle): needle occurs as a contiguous substring.
contains(hay, needle) ==
    \E i \in 0..(Len(hay) - Len(needle)) :
        SubSeq(hay, i + 1, i + Len(needle)) = needle

\* Ordering as an integer: Less = -1, Equal = 0, Greater = 1.
CmpInt(a, b) == IF a < b THEN -1 ELSE IF a > b THEN 1 ELSE 0

\* bool::cmp, false < true.
CmpBool(a, b) == IF a = b THEN 0 ELSE IF b THEN -1 ELSE 1

\* String::cmp: lexicographic on the bytes, a proper prefix is smaller.
RECURSIVE CmpStr(_, _)
CmpStr(a, b) ==
    IF a = <<>> THEN (IF b = <<>> THEN 0 ELSE -1)
    ELSE IF b = <<>> THEN 1
    ELSE IF Head(a) # Head(b) THEN CmpInt(Head(a), Head(b))
    ELSE CmpStr(Tail(a), Tail(b))

\* ------------------------------------------------------------- paths
\* Path::parent: None for "/", else the path without its last component.
Parent(path) ==
    IF path = <<>> THEN None ELSE Some(SubSeq(path, 1, Len(path) - 1))

\* Path::starts_with: base is a whole-component prefix of path.
StartsWith(path, base) ==
    Len(base) <= Len(path) /\ SubSeq(path, 1, Len(base)) = base

\* Path::file_name as a String ("" for "/", by unwrap_or_default).
FileName(path) == IF path = <<>> THEN <<>> ELSE path[Len(path)]

\* ------------------------------------------------------- file system
n_photos == <<80, 104, 111, 116, 111, 115>>                    \* "Photos"
n_tips   == <<116, 105, 112, 115, 46, 116, 120, 116>>          \* "tips.txt"
n_hid    == <<46, 104, 105, 100>>                              \* ".hid"
n_b      == <<66, 46, 106, 112, 103>>                          \* "B.jpg"
n_a      == <<97, 46, 103, 105, 102>>                          \* "a.gif"

p_root   == <<>>
p_photos == <<n_photos>>
p_tips   == <<n_tips>>
p_hid    == <<n_hid>>
p_b      == <<n_photos, n_b>>
p_a      == <<n_photos, n_a>>

\* Every node the file system can hold below "/", in the order a listing
\* returns them: / { tips.txt (50 bytes), Photos/ { B.jpg, a.gif }, .hid }.
Universe ==
    << [path |-> p_tips,   is_file |-> TRUE,  len |-> 50],
       [path |-> p_photos, is_file |-> FALSE, len |-> 0],
       [path |-> p_hid,    is_file |-> TRUE,  len |-> 150000],
       [path |-> p_b,      is_file |-> TRUE,  len |-> 250000],
       [path |-> p_a,      is_file |-> TRUE,  len |-> 250000] >>

AllPaths == {Universe[i].path : i \in 1..Len(Universe)}
AllDirs == {p_root} \cup {Universe[i].path : i \in {j \in 1..Len(Universe) : ~Universe[j].is_file}}

VARIABLES
    \* struct DiskAnalyzer
    root_path, current_path, file_list, filtered_list, scanning,
    search_query, delete_confirmation, total_size, min_size_filter,
    show_all, cache, sort_by_size, show_hidden,
    \* the environment: the clock (seconds) and the file system
    now, exists, unlistable, nometa,
    \* what the last handler did: its name, the path it scanned, whether the
    \* scan was served from the cache, whether it called fs::read_dir on the
    \* scanned path, and what delete_item returned
    last

app_vars == <<root_path, current_path, file_list, filtered_list, scanning,
              search_query, delete_confirmation, total_size, min_size_filter,
              show_all, cache, sort_by_size, show_hidden>>
env_vars == <<now, exists, unlistable, nometa>>
vars == <<app_vars, env_vars, last>>

\* Directories whose listing the environment can make fail, and children
\* whose metadata it can make unreadable.
UnlistableCandidates == {p_photos}
NoMetaCandidates == {p_hid, p_photos}

\* The items the user asks to delete.
DeleteTargets == {p_photos, p_a}

\* fs::read_dir(dir) is Ok: dir exists, is a directory and can be listed.
read_dir_ok(dir) ==
    /\ dir \in AllDirs
    /\ dir = p_root \/ dir \in exists
    /\ dir \notin unlistable

\* The entries fs::read_dir(dir) yields, in listing order.
read_dir(dir) ==
    SelectSeq(Universe, LAMBDA n : n.path \in exists /\ Parent(n.path) = Some(dir))

\* DirEntry::metadata() is Ok.
metadata_ok(n) == n.path \notin nometa

RECURSIVE calculate_dir_size(_)
RECURSIVE sum_entry_sizes(_)

\* The closure taking the length the metadata gives, of a directory too.
entry_size_flat(n) ==
    IF metadata_ok(n) THEN n.len ELSE 0

\* The closure of calculate_dir_size: what one entry adds to the sum.
entry_size(n) ==
    IF metadata_ok(n)
    THEN IF n.is_file THEN n.len ELSE calculate_dir_size(n.path)
    ELSE 0

sum_entry_sizes(es) ==
    IF es = <<>> THEN 0 ELSE entry_size(Head(es)) + sum_entry_sizes(Tail(es))

calculate_dir_size(path) ==
    IF read_dir_ok(path) THEN sum_entry_sizes(read_dir(path)) ELSE 0

\* file_list.iter().map(|f| f.size).sum()
RECURSIVE sum_sizes(_)
sum_sizes(list) ==
    IF list = <<>> THEN 0 ELSE Head(list).size + sum_sizes(Tail(list))

\* ------------------------------------------------------------ sorting
\* The comparator of sort_files when sort_by_size is set.
sort_cmp_size(a, b) ==
    IF a.is_dir = b.is_dir
    THEN CmpInt(b.size, a.size)
    ELSE CmpBool(b.is_dir, a.is_dir)

\* The name comparator with the tiers compared the other way round.
sort_cmp_name_files_first(a, b) ==
    IF a.is_dir = b.is_dir
    THEN CmpStr(to_lowercase(a.name), to_lowercase(b.name))
    ELSE CmpBool(a.is_dir, b.is_dir)

\* The comparator of sort_files when sort_by_size is not set.
sort_cmp_name(a, b) ==
    IF a.is_dir = b.is_dir
    THEN CmpStr(to_lowercase(a.name), to_lowercase(b.name))
    ELSE CmpBool(b.is_dir, a.is_dir)

compare(a, b, by_size) ==
    IF by_size THEN sort_cmp_size(a, b) ELSE sort_cmp_name(a, b)

\* slice::sort_by is a stable sort: x, which followed every element of
\* sorted in the input, goes behind the elements that are not greater.
RECURSIVE insert_stable(_, _, _)
insert_stable(x, sorted, by_size) ==
    IF sorted = <<>> THEN <<x>>
    ELSE IF compare(Head(sorted), x, by_size) <= 0
         THEN <<Head(sorted)>> \o insert_stable(x, Tail(sorted), by_size)
         ELSE <<x>> \o sorted

RECURSIVE sort_by(_, _)
sort_by(list, by_size) ==
    IF list = <<>> THEN <<>>
    ELSE insert_stable(list[Len(list)],
                       sort_by(SubSeq(list, 1, Len(list) - 1), by_size),
                       by_size)

\* ------------------------------------------------- struct DiskAnalyzer
\* The methods are functions from the struct (a record of its fields, with
\* obs, the record of the calls the running handler has made) to the struct
\* they leave behind.
NoObs == [scanned |-> None, hit |-> FALSE, listed |-> FALSE]

Self ==
    [root_path |-> root_path, current_path |-> current_path,
     file_list |-> file_list, filtered_list |-> filtered_list,
     scanning |-> scanning, search_query |-> search_query,
     delete_confirmation |-> delete_confirmation, total_size |-> total_size,
     min_size_filter |-> min_size_filter, show_all |-> show_all,
     cache |-> cache, sort_by_size |-> sort_by_size,
     show_hidden |-> show_hidden, obs |-> NoObs]

sort_files(s) == [s EXCEPT !.file_list = sort_by(@, s.sort_by_size)]

\* update_search comparing with the query as typed.
update_search_case_sensitive(s) ==
    [s EXCEPT !.filtered_list =
        IF s.search_query = <<>>
        THEN s.file_list
        ELSE SelectSeq(s.file_list,
                       LAMBDA item : contains(to_lowercase(item.name),
                                               s.search_query))]

update_search(s) ==
    LET query == to_lowercase(s.search_query)
    IN  [s EXCEPT !.filtered_list =
            IF query = <<>>
            THEN s.file_list
            ELSE SelectSeq(s.file_list,
                           LAMBDA item : contains(to_lowercase(item.name), query))]

\* The freshness test with <= for <.
cache_fresh_inclusive(timestamp, time) == time - timestamp <= CACHE_TTL

\* cache_entry.timestamp.elapsed() < Duration::from_secs(300)
cache_fresh(timestamp, time) == time - timestamp < CACHE_TTL

\* The hidden filter without the test of show_hidden.
skip_hidden_always(s, name) == starts_with_dot(name)

\* The two `continue`s of the listing loop.
skip_hidden(s, name) == ~s.show_hidden /\ starts_with_dot(name)
skip_small(s, size) == ~s.show_all /\ size < s.min_size_filter

\* The FileInfo the listing loop pushes for entry n.
file_info(n) ==
    [path |-> n.path, size |-> entry_size(n), is_dir |-> ~n.is_file,
     name |-> FileName(n.path)]

\* The vector `files` the listing loop builds from the entries of dir.
list_files(s, dir) ==
    LET kept == SelectSeq(read_dir(dir),
                    LAMBDA n : /\ metadata_ok(n)
                               /\ ~skip_hidden(s, FileName(n.path))
                               /\ ~skip_small(s, entry_size(n)))
    IN  [i \in 1..Len(kept) |-> file_info(kept[i])]

\* The cache-hit branch without the assignment of total_size.
scan_cache_hit_keeps_total(s, entry) ==
    LET s1 == [s EXCEPT !.file_list = entry.file_list, !.obs.hit = TRUE]
    IN  [update_search(sort_files(s1)) EXCEPT !.scanning = FALSE]

\* The cache-hit branch without the call of sort_files.
scan_cache_hit_unsorted(s, entry) ==
    LET s1 == [s EXCEPT !.file_list = entry.file_list,
                        !.total_size = entry.total_size,
                        !.obs.hit = TRUE]
    IN  [update_search(s1) EXCEPT !.scanning = FALSE]

\* The cache-hit branch of scan_current_directory.
scan_cache_hit(s, entry) ==
    LET s1 == [s EXCEPT !.file_list = entry.file_list,
                        !.total_size = entry.total_size,
                        !.obs.hit = TRUE]
    IN  [update_search(sort_files(s1)) EXCEPT !.scanning = FALSE]

\* The listing storing the total it held before it summed the new list.
scan_cache_miss_stale_total(s, dir, time) ==
    LET s1 == [s EXCEPT !.obs.listed = TRUE]
    IN  IF read_dir_ok(dir)
        THEN LET s2 == sort_files([s1 EXCEPT !.file_list = list_files(s1, dir)])
                 s3 == [s2 EXCEPT !.cache[dir] =
                            Some([file_list |-> s2.file_list,
                                  total_size |-> s2.total_size,
                                  timestamp |-> time])]
                 s4 == [s3 EXCEPT !.total_size = sum_sizes(s3.file_list)]
             IN  [update_search(s4) EXCEPT !.scanning = FALSE]
        ELSE [update_search(s1) EXCEPT !.scanning = FALSE]

\* The rest of scan_current_directory: the listing, or its failure.
scan_cache_miss(s, dir, time) ==
    LET s1 == [s EXCEPT !.obs.listed = TRUE]
    IN  IF read_dir_ok(dir)
        THEN LET s2 == sort_files([s1 EXCEPT !.file_list = list_files(s1, dir)])
                 s3 == [s2 EXCEPT !.total_size = sum_sizes(s2.file_list)]
                 s4 == [s3 EXCEPT !.cache[dir] =
                            Some([file_list |-> s3.file_list,
                                  total_size |-> s3.total_size,
                                  timestamp |-> time])]
             IN  [update_search(s4) EXCEPT !.scanning = FALSE]
        ELSE [update_search(s1) EXCEPT !.scanning = FALSE]

scan_current_directory(s, time) ==
    IF s.current_path = None THEN s
    ELSE LET dir == Unwrap(s.current_path)
             s1 == [s EXCEPT !.scanning = TRUE, !.file_list = <<>>,
                             !.obs.scanned = Some(dir)]
         IN  IF IsSome(s1.cache[dir])
                    /\ cache_fresh(Unwrap(s1.cache[dir]).timestamp, time)
             THEN scan_cache_hit(s1, Unwrap(s1.cache[dir]))
             ELSE scan_cache_miss(s1, dir, time)

\* navigate_to without the scan.
navigate_to_without_scan(s, path, time) ==
    [s EXCEPT !.current_path = Some(path)]

navigate_to(s, path, time) ==
    scan_current_directory([s EXCEPT !.current_path = Some(path)], time)

\* go_up without the test against the root.
go_up_allowed_unchecked(s, parent) == TRUE

\* go_up with the arguments of starts_with exchanged.
go_up_allowed_swapped(s, parent) ==
    IF s.root_path = None THEN TRUE ELSE StartsWith(Unwrap(s.root_path), parent)

\* The test of go_up on the parent of the current path.
go_up_allowed(s, parent) ==
    IF s.root_path = None THEN TRUE ELSE StartsWith(parent, Unwrap(s.root_path))

go_up(s, time) ==
    IF s.current_path = None THEN s
    ELSE LET parent == Parent(Unwrap(s.current_path))
         IN  IF IsSome(parent) /\ go_up_allowed(s, Unwrap(parent))
             THEN navigate_to(s, Unwrap(parent), time)
             ELSE s

\* What delete_item returns when the removal gives removed_ok.
delete_result(item, removed_ok) ==
    IF removed_ok THEN "Ok"
    ELSE IF item.is_dir THEN "Error deleting directory"
    ELSE "Error deleting file"

\* The path whose cache entry delete_item removes.
delete_cache_key(s, item) == s.current_path

RECURSIVE retain_other(_, _)
retain_other(list, path) ==
    IF list = <<>> THEN <<>>
    ELSE IF Head(list).path # path
         THEN <<Head(list)>> \o retain_other(Tail(list), path)
         ELSE retain_other(Tail(list), path)

\* delete_item dropping the cache entry before it attempts the removal.
delete_item_invalidates_first(s, item, removed_ok) ==
    LET key == delete_cache_key(s, item)
        s1 == IF IsSome(key) THEN [s EXCEPT !.cache[Unwrap(key)] = None] ELSE s
        s2 == update_search([s1 EXCEPT !.file_list = retain_other(@, item.path)])
    IN  IF ~removed_ok THEN s1
        ELSE [s2 EXCEPT !.total_size = sum_sizes(s2.file_list)]

\* The struct delete_item leaves behind.
delete_item(s, item, removed_ok) ==
    IF ~removed_ok THEN s
    ELSE LET key == delete_cache_key(s, item)
             s1 == IF IsSome(key)
                   THEN [s EXCEPT !.cache[Unwrap(key)] = None]
                   ELSE s
             s2 == update_search([s1 EXCEPT !.file_list = retain_other(@, item.path)])
         IN  [s2 EXCEPT !.total_size = sum_sizes(s2.file_list)]

\* ------------------------------------------------------------ actions
\* The search texts the user types: "" and "P".
SearchQueries == {<<>>, <<80>>}

\* The steps by which the clock advances, in seconds.
TickSteps == {299, 300}

\* The handler named op leaves the struct s behind, delete_item having
\* returned result ("" when it was not called).
Commit(s, op, result) ==
    /\ root_path' = s.root_path
    /\ current_path' = s.current_path
    /\ file_list' = s.file_list
    /\ filtered_list' = s.filtered_list
    /\ scanning' = s.scanning
    /\ search_query' = s.search_query
    /\ delete_confirmation' = s.delete_confirmation
    /\ total_size' = s.total_size
    /\ min_size_filter' = s.min_size_filter
    /\ show_all' = s.show_all
    /\ cache' = s.cache
    /\ sort_by_size' = s.sort_by_size
    /\ show_hidden' = s.show_hidden
    /\ last' = [op |-> op, scanned |-> s.obs.scanned, hit |-> s.obs.hit,
                listed |-> s.obs.listed, result |-> result]

Init ==
    /\ root_path = None
    /\ current_path = None
    /\ file_list = <<>>
    /\ filtered_list = <<>>
    /\ scanning = FALSE
    /\ search_query = <<>>
    /\ delete_confirmation = None
    /\ total_size = 0
    /\ min_size_filter = MIN_SIZE_FILTER
    /\ show_all = FALSE
    /\ cache = [d \in AllDirs |-> None]
    /\ sort_by_size = TRUE
    /\ show_hidden = FALSE
    /\ now = 0
    /\ exists = AllPaths
    /\ unlistable = {}
    /\ nometa = {}
    /\ last = [op |-> "init", scanned |-> None, hit |-> FALSE,
               listed |-> FALSE, result |-> ""]

\* "Select Directory": the dialog returns an existing directory.
SelectDirectory ==
    \E path \in AllDirs :
        /\ path = p_root \/ path \in exists
        /\ Commit(navigate_to([Self EXCEPT !.root_path = Some(path)], path, now),
                  "navigate", "")
        /\ UNCHANGED env_vars

\* The refresh button, shown once a directory is open.
Refresh ==
    /\ IsSome(current_path)
    /\ Commit(scan_current_directory(Self, now), "scan", "")
    /\ UNCHANGED env_vars

\* "Apply Filter".
ApplyFilter ==
    /\ Commit(scan_current_directory(Self, now), "scan", "")
    /\ UNCHANGED env_vars

\* The "Show All Files" checkbox.
ToggleShowAll ==
    /\ Commit([Self EXCEPT !.show_all = ~@], "other", "")
    /\ UNCHANGED env_vars

\* The checkboxes shown once a directory is open.
ToggleSortBySize ==
    /\ IsSome(current_path)
    /\ Commit([Self EXCEPT !.sort_by_size = ~@], "other", "")
    /\ UNCHANGED env_vars

ToggleShowHidden ==
    /\ IsSome(current_path)
    /\ Commit([Self EXCEPT !.show_hidden = ~@], "other", "")
    /\ UNCHANGED env_vars

\* The search box changes to query.
EditSearch ==
    \E query \in SearchQueries :
        /\ query # search_query
        /\ Commit(update_search([Self EXCEPT !.search_query = query]), "other", "")
        /\ UNCHANGED env_vars

\* The up button of the path bar.
ClickGoUp ==
    /\ IsSome(current_path)
    /\ Commit(go_up(Self, now), "go_up", "")
    /\ UNCHANGED env_vars

\* A button of the path bar: the first k components of the current path,
\* for every k above the number of components of the root.
ClickBreadcrumb ==
    /\ IsSome(current_path)
    /\ IsSome(root_path)
    /\ \E k \in (Len(Unwrap(root_path)) + 1)..Len(Unwrap(current_path)) :
          Commit(navigate_to(Self, SubSeq(Unwrap(current_path), 1, k), now),
                 "navigate", "")
    /\ UNCHANGED env_vars

\* The button of a directory of the displayed list.
ClickDirectory ==
    /\ ~scanning
    /\ \E i \in 1..Len(filtered_list) :
          /\ filtered_list[i].is_dir
          /\ Commit(navigate_to(Self, filtered_list[i].path, now), "navigate", "")
    /\ UNCHANGED env_vars

\* The delete button of an item of the displayed list.
ClickDelete ==
    /\ ~scanning
    /\ \E i \in 1..Len(filtered_list) :
          /\ filtered_list[i].path \in DeleteTargets
          /\ Commit([Self EXCEPT !.delete_confirmation = Some(filtered_list[i])],
                    "other", "")
    /\ UNCHANGED env_vars

\* "Yes" of the confirmation window: the removal succeeds (only of a path
\* that exists, and with all below it) or fails.
ConfirmYes ==
    /\ IsSome(delete_confirmation)
    /\ \E removed_ok \in BOOLEAN :
          LET item == Unwrap(delete_confirmation)
              s == delete_item(Self, item, removed_ok)
          IN  /\ removed_ok => item.path \in exists
              /\ Commit(IF removed_ok
                        THEN [s EXCEPT !.delete_confirmation = None]
                        ELSE s,
                        "delete", delete_result(item, removed_ok))
              /\ exists' = IF removed_ok
                           THEN {q \in exists : ~StartsWith(q, item.path)}
                           ELSE exists
    /\ UNCHANGED <<now, unlistable, nometa>>

\* "No" of the confirmation window.
ConfirmNo ==
    /\ IsSome(delete_confirmation)
    /\ Commit([Self EXCEPT !.delete_confirmation = None], "other", "")
    /\ UNCHANGED env_vars

EnvStep ==
    /\ last' = [op |-> "other", scanned |-> None, hit |-> FALSE,
                listed |-> FALSE, result |-> ""]
    /\ UNCHANGED app_vars

\* Time passes.
Tick ==
    \E d \in TickSteps :
        /\ now + d <= MaxNow
        /\ now' = now + d
        /\ EnvStep
        /\ UNCHANGED <<exists, unlistable, nometa>>

\* A directory becomes unlistable, or listable again.
ToggleUnlistable ==
    \E d \in UnlistableCandidates :
        /\ unlistable' = IF d \in unlistable THEN unlistable \ {d}
                         ELSE unlistable \cup {d}
        /\ EnvStep
        /\ UNCHANGED <<now, exists, nometa>>

\* The metadata of a child becomes unreadable, or readable again.
ToggleNoMeta ==
    \E p \in NoMetaCandidates :
        /\ nometa' = IF p \in nometa THEN nometa \ {p} ELSE nometa \cup {p}
        /\ EnvStep
        /\ UNCHANGED <<now, exists, unlistable>>

Next ==
    \/ SelectDirectory
    \/ Refresh
    \/ ApplyFilter
    \/ ToggleShowAll
    \/ ToggleSortBySize
    \/ EditSearch
    \/ ClickGoUp
    \/ ClickBreadcrumb
    \/ ClickDirectory
    \/ ClickDelete
    \/ ConfirmYes
    \/ ConfirmNo
    \/ Tick
    \/ ToggleUnlistable

Spec == Init /\ [][Next]_vars

\* The file systems of the size computation: the nodes present are closed
\* under parent, any directory may be unlistable, and the metadata of a
\* file of "/", of the directory and of a file in it may be unreadable.
Trees ==
    {e \in SUBSET AllPaths :
        \A p \in e : Len(p) > 1 => SubSeq(p, 1, Len(p) - 1) \in e}

NoMetaChoices == SUBSET {p_tips, p_photos, p_a}

InitSize ==
    /\ root_path = None
    /\ current_path = None
    /\ file_list = <<>>
    /\ filtered_list = <<>>
    /\ scanning = FALSE
    /\ search_query = <<>>
    /\ delete_confirmation = None
    /\ total_size = 0
    /\ min_size_filter = MIN_SIZE_FILTER
    /\ show_all = FALSE
    /\ cache = [d \in AllDirs |-> None]
    /\ sort_by_size = TRUE
    /\ show_hidden = FALSE
    /\ now = 0
    /\ exists \in Trees
    /\ unlistable \in SUBSET AllDirs
    /\ nometa \in NoMetaChoices
    /\ last = [op |-> "init", scanned |-> None, hit |-> FALSE,
               listed |-> FALSE, result |-> ""]

\* The handlers that scan, on each of these file systems.
NextSize ==
    \/ SelectDirectory
    \/ Refresh
    \/ ClickGoUp
    \/ ClickDirectory

SpecSize == InitSize /\ [][NextSize]_vars

\* The scans alone, with the hidden-file checkbox and unreadable metadata.
NextListing ==
    \/ SelectDirectory
    \/ Refresh
    \/ ApplyFilter
    \/ ToggleShowAll
    \/ ToggleSortBySize
    \/ ToggleShowHidden
    \/ ClickGoUp
    \/ ClickDirectory
    \/ ToggleUnlistable
    \/ ToggleNoMeta

SpecListing == Init /\ [][NextListing]_vars

\* -------------------------------------------------------------- claims
\* base is path itself or an ancestor of path.
AtOrBelow(path, base) ==
    /\ Len(base) <= Len(path)
    /\ \A i \in 1..Len(base) : path[i] = base[i]

\* The path the last handler scanned, and its cache entry.
ScannedDir == Unwrap(last.scanned)
ScannedEntry == Unwrap(cache[ScannedDir])

\* C1: root and current are both unset or both set, and when set current
\* is root or a descendant of root.
C1_CurrentWithinRoot ==
    /\ root_path = None <=> current_path = None
    /\ IsSome(root_path) => AtOrBelow(Unwrap(current_path), Unwrap(root_path))

\* go_up has been asked for at a root that has a parent.
C1_Witness ==
    /\ last.op = "go_up"
    /\ root_path = Some(p_photos)
    /\ current_path = Some(p_photos)

\* C2: go_up at the root (or where current has no parent) changes neither
\* current, the lists, the total nor the cache and scans nothing; anywhere
\* else current becomes its parent, which is scanned.
C2_GoUp ==
    [][(last'.op = "go_up" /\ IsSome(current_path)) =>
          LET cur == Unwrap(current_path)
          IN  IF current_path = root_path \/ cur = <<>>
              THEN /\ UNCHANGED <<current_path, file_list, filtered_list,
                                  total_size, cache>>
                   /\ last'.scanned = None
                   /\ ~last'.listed
              ELSE /\ current_path' = Some(SubSeq(cur, 1, Len(cur) - 1))
                   /\ last'.scanned = current_path']_vars

\* go_up was a no-op at a root that has a parent, with entries listed.
C2_Witness ==
    /\ last.op = "go_up"
    /\ last.scanned = None
    /\ current_path = root_path
    /\ current_path = Some(p_photos)
    /\ file_list # <<>>

\* list holds the entries of other, each as often, in some order.
SameEntries(list, other) ==
    /\ Len(list) = Len(other)
    /\ \A i \in 1..Len(list) :
          Cardinality({j \in 1..Len(list) : list[j] = list[i]})
              = Cardinality({j \in 1..Len(other) : other[j] = list[i]})

\* list is ordered: no entry is greater than its successor.
Ordered(list, by_size) ==
    \A i \in 1..(Len(list) - 1) : compare(list[i], list[i + 1], by_size) <= 0

\* C3 as claimed: a scan served from the cache lists nothing and leaves
\* exactly the cached list, in the cached order, and the cached total.
C3_Original ==
    last.hit =>
        /\ ~last.listed
        /\ file_list = ScannedEntry.file_list
        /\ total_size = ScannedEntry.total_size

\* C3 as amended: a scan served from the cache lists nothing and leaves
\* the cached total and the cached entries, each once, whatever the filter
\* configuration; they are in the cached order when that order agrees with
\* the sort_by_size in force, and re-ordered otherwise.
C3_CacheHit ==
    last.hit =>
        /\ ~last.listed
        /\ total_size = ScannedEntry.total_size
        /\ SameEntries(file_list, ScannedEntry.file_list)
        /\ Ordered(ScannedEntry.file_list, sort_by_size)
              => file_list = ScannedEntry.file_list

\* A scan was served from the cache and re-ordered the cached list.
C3_Witness ==
    /\ last.hit
    /\ file_list # ScannedEntry.file_list
    /\ total_size > 0

\* C4: a scan is served from the cache exactly when the path has an entry
\* younger than 300 seconds; otherwise it lists the directory and, when the
\* listing succeeds, stores the new result with the current time; when it
\* fails the old entry stays.
C4_Ttl ==
    [][IsSome(last'.scanned) =>
          LET dir == Unwrap(last'.scanned)
          IN  /\ last'.hit <=> /\ IsSome(cache[dir])
                               /\ now - Unwrap(cache[dir]).timestamp < 300
              /\ last'.listed <=> ~last'.hit
              /\ (last'.listed /\ read_dir_ok(dir)) =>
                    cache'[dir] = Some([file_list |-> file_list',
                                        total_size |-> total_size',
                                        timestamp |-> now])
              /\ (last'.listed /\ ~read_dir_ok(dir)) =>
                    cache'[dir] = cache[dir]]_vars

\* An entry exactly 300 seconds old was passed over and, the listing
\* having failed, is still there.
C4_Witness ==
    /\ last.listed
    /\ now = 300
    /\ IsSome(cache[ScannedDir])
    /\ ScannedEntry.timestamp = 0

\* C5 as claimed: after a scan with show_all unset the list holds no entry
\* smaller than min_size_filter.
C5_NoSmallEntry ==
    (IsSome(last.scanned) /\ ~show_all) =>
        \A i \in 1..Len(file_list) : file_list[i].size >= min_size_filter

\* C6 as claimed: after a rescan (refresh or Apply Filter) with show_all
\* set, every child of the directory whose metadata is readable and that
\* the hidden filter lets through is in the list.
C6_ShowAllListsEverything ==
    (last.op = "scan" /\ IsSome(last.scanned) /\ show_all
        /\ read_dir_ok(ScannedDir)) =>
        \A k \in 1..Len(read_dir(ScannedDir)) :
            LET n == read_dir(ScannedDir)[k]
            IN  (metadata_ok(n)
                    /\ (show_hidden \/ ~starts_with_dot(FileName(n.path))))
                => \E i \in 1..Len(file_list) : file_list[i].path = n.path

\* C7 as claimed: a scan whose listing fails leaves an empty list, an
\* empty filtered list and a total of zero.
C7_FailedListingIsEmpty ==
    (last.listed /\ ~read_dir_ok(ScannedDir)) =>
        /\ file_list = <<>>
        /\ filtered_list = <<>>
        /\ total_size = 0

\* C8 as claimed: a successful delete leaves the entry in neither list and
\* no cache entry for the parent directory of the entry.
C8_DeleteInvalidatesParent ==
    [][(last'.op = "delete" /\ last'.result = "Ok") =>
          LET item == Unwrap(delete_confirmation)
          IN  /\ \A i \in 1..Len(file_list') : file_list'[i].path # item.path
              /\ \A i \in 1..Len(filtered_list') :
                    filtered_list'[i].path # item.path
              /\ cache'[Unwrap(Parent(item.path))] = None]_vars

\* C9: when the removal fails (the file system is as before), delete_item
\* returns the error of the entry's kind and the cache, the lists, the
\* total, root and current are unchanged.
C9_FailedDelete ==
    [][(last'.op = "delete" /\ exists' = exists) =>
          /\ last'.result = IF Unwrap(delete_confirmation).is_dir
                            THEN "Error deleting directory"
                            ELSE "Error deleting file"
          /\ UNCHANGED <<cache, file_list, filtered_list, total_size,
                         root_path, current_path>>]_vars

\* The removal of a directory failed where the directory had a cache entry.
C9_Witness ==
    /\ last.op = "delete"
    /\ last.result = "Error deleting directory"
    /\ IsSome(cache[Unwrap(current_path)])
    /\ file_list # <<>>

\* No file precedes a directory in list.
DirsFirst(list) ==
    \A i \in 1..Len(list) : \A j \in (i + 1)..Len(list) :
        list[i].is_dir \/ ~list[j].is_dir

\* C10: in the entry list and in the filtered list no file precedes a
\* directory.
C10_DirsFirst == DirsFirst(file_list) /\ DirsFirst(filtered_list)

\* A search under the name order shows a directory and a file.
C10_Witness ==
    /\ ~sort_by_size
    /\ search_query # <<>>
    /\ \E i \in 1..Len(filtered_list) : filtered_list[i].is_dir
    /\ \E i \in 1..Len(filtered_list) : ~filtered_list[i].is_dir


\* The positions of list whose lower-cased name holds the lower-cased query.
Matching(list, query) ==
    {i \in 1..Len(list) :
        \E k \in 0..(Len(list[i].name) - Len(query)) :
            \A m \in 1..Len(query) :
                to_lowercase(list[i].name)[k + m] = to_lowercase(query)[m]}

\* C11: the filtered list is the entry list restricted, in order, to the
\* entries whose lower-cased name holds the lower-cased query; it is the
\* entry list when the query is empty.
C11_FilteredIsSearch ==
    /\ Len(filtered_list) = Cardinality(Matching(file_list, search_query))
    /\ \A k \in 1..Len(filtered_list) :
          \E i \in Matching(file_list, search_query) :
              /\ filtered_list[k] = file_list[i]
              /\ Cardinality({j \in Matching(file_list, search_query) : j <= i}) = k
    /\ search_query = <<>> => filtered_list = file_list

\* A search keeps one entry of two.
C11_Witness ==
    /\ search_query # <<>>
    /\ Len(file_list) = 2
    /\ Len(filtered_list) = 1


\* The nodes present directly below dir.
ChildrenOf(dir) ==
    {Universe[i] : i \in {j \in 1..Len(Universe) :
        /\ Universe[j].path \in exists
        /\ Len(Universe[j].path) = Len(dir) + 1
        /\ \A k \in 1..Len(dir) : Universe[j].path[k] = dir[k]}}

\* What child n of a directory adds to the aggregate of the directory.
ChildShare(n) ==
    IF n.path \in nometa THEN 0
    ELSE IF n.is_file THEN n.len
    ELSE calculate_dir_size(n.path)

RECURSIVE SumOfShares(_)
SumOfShares(nodes) ==
    IF nodes = {} THEN 0
    ELSE LET n == CHOOSE x \in nodes : TRUE
         IN  ChildShare(n) + SumOfShares(nodes \ {n})

\* dir can be listed: it is there and is not unlistable.
Listable(dir) == (dir = <<>> \/ dir \in exists) /\ dir \notin unlistable

\* C12: the aggregate of a directory is 0 when it cannot be listed, else
\* the sum over its children of the length of a file, the aggregate of a
\* sub-directory and 0 for a child whose metadata cannot be read.
C12_AggregateSize ==
    \A dir \in AllDirs :
        calculate_dir_size(dir) =
            IF Listable(dir) THEN SumOfShares(ChildrenOf(dir)) ELSE 0

\* A scan has computed the aggregate of a directory one of whose two
\* files has unreadable metadata, next to a sibling with unreadable
\* metadata.
C12_Witness ==
    /\ last.listed
    /\ p_a \in nometa
    /\ p_tips \in nometa
    /\ \E i \in 1..Len(file_list) :
          file_list[i].path = p_photos /\ file_list[i].size = 250000


\* The sum of the sizes of the entries of list at the positions in at.
RECURSIVE SizeSum(_, _)
SizeSum(list, at) ==
    IF at = {} THEN 0
    ELSE LET i == CHOOSE x \in at : TRUE
         IN  list[i].size + SizeSum(list, at \ {i})

\* C13: the total of every cache entry is the sum of the sizes of the
\* entries of that cache entry.
C13_CacheTotal ==
    \A dir \in AllDirs :
        IsSome(cache[dir]) =>
            Unwrap(cache[dir]).total_size
                = SizeSum(Unwrap(cache[dir]).file_list,
                          1..Len(Unwrap(cache[dir]).file_list))

\* The listing of a directory and a small file has been cached.
C13_Witness ==
    /\ IsSome(cache[p_root])
    /\ Unwrap(cache[p_root]).timestamp = 300
    /\ Len(Unwrap(cache[p_root]).file_list) = 2
    /\ Unwrap(cache[p_root]).total_size = 500050


\* C14 as claimed: after a successful delete no directory that holds the
\* deleted item, directly or through sub-directories, has a cache entry.
C14_DeleteInvalidatesAncestors ==
    [][(last'.op = "delete" /\ last'.result = "Ok") =>
          LET gone == Unwrap(delete_confirmation).path
          IN  \A dir \in AllDirs :
                  (Len(dir) < Len(gone) /\ SubSeq(gone, 1, Len(dir)) = dir)
                      => cache'[dir] = None]_vars


\* The place of path in the listing that returns it.
ListingPlace(path) == CHOOSE i \in 1..Len(Universe) : Universe[i].path = path

\* C15 as claimed: after a scan, entries that tie under the ordering in
\* force (same tier and same size by size, same lower-cased name by name)
\* are in the order in which the listing returned them.
C15_TiesInListingOrder ==
    IsSome(last.scanned) =>
        \A i \in 1..Len(file_list) : \A j \in (i + 1)..Len(file_list) :
            (/\ file_list[i].is_dir = file_list[j].is_dir
             /\ IF sort_by_size
                THEN file_list[i].size = file_list[j].size
                ELSE to_lowercase(file_list[i].name)
                         = to_lowercase(file_list[j].name))
            => ListingPlace(file_list[i].path) < ListingPlace(file_list[j].path)


\* a is no later than b in the order of characters, a prefix first.
RECURSIVE NameAtMost(_, _)
NameAtMost(a, b) ==
    \/ a = <<>>
    \/ /\ b # <<>>
       /\ \/ Head(a) < Head(b)
          \/ Head(a) = Head(b) /\ NameAtMost(Tail(a), Tail(b))

Kept(dir) ==
    {n \in ChildrenOf(dir) :
        /\ n.path \notin nometa
        /\ show_hidden \/ n.path[Len(n.path)][1] # 46
        /\ show_all \/ ChildShare(n) >= min_size_filter}

\* C17: after a listing that succeeded, the list holds exactly one entry
\* for each child kept, with the length of a file or the aggregate of a
\* directory as its size, and the cache holds the list under the path.
C17_FreshListing ==
    (last.listed /\ Listable(ScannedDir)) =>
        /\ Len(file_list) = Cardinality(Kept(ScannedDir))
        /\ \A n \in Kept(ScannedDir) :
              \E i \in 1..Len(file_list) :
                  file_list[i] = [path |-> n.path, size |-> ChildShare(n),
                                  is_dir |-> ~n.is_file,
                                  name |-> n.path[Len(n.path)]]
        /\ IsSome(cache[ScannedDir])
        /\ ScannedEntry.file_list = file_list

\* A listing has kept the hidden file and skipped the directory whose
\* metadata cannot be read and the small file.
C17_Witness ==
    /\ last.listed
    /\ show_hidden
    /\ ~show_all
    /\ p_photos \in nometa
    /\ Len(file_list) = 1
    /\ file_list[1].path = p_hid


\* C18 as claimed: the total is the sum of the sizes of the entry list.
C18_TotalIsSum ==
    total_size = SizeSum(file_list, 1..Len(file_list))

\* path is directly below dir.
DirectChild(path, dir) ==
    /\ Len(path) = Len(dir) + 1
    /\ \A k \in 1..Len(dir) : path[k] = dir[k]

\* C19: the entries of the entry list (and so of the filtered list) are
\* directly below the current directory, and the entries cached under a
\* path are directly below that path.
C19_EntriesAreChildren ==
    /\ \A i \in 1..Len(file_list) :
          /\ IsSome(current_path)
          /\ DirectChild(file_list[i].path, Unwrap(current_path))
    /\ \A i \in 1..Len(filtered_list) :
          /\ IsSome(current_path)
          /\ DirectChild(filtered_list[i].path, Unwrap(current_path))
    /\ \A dir \in AllDirs :
          IsSome(cache[dir]) =>
              \A i \in 1..Len(Unwrap(cache[dir]).file_list) :
                  DirectChild(Unwrap(cache[dir]).file_list[i].path, dir)

\* The directory was entered from the list of "/" and its own entries
\* came from the cache, that of "/" being cached too.
C19_Witness ==
    /\ last.op = "navigate"
    /\ last.hit
    /\ current_path = Some(p_photos)
    /\ root_path = Some(p_root)
    /\ Len(file_list) = 2
    /\ IsSome(cache[p_root])

====
